---- MODULE Spec2Model ----
(***************************************************************************)
(* Model of the plan / query / validate / retry pipeline:                  *)
(*   state.py        DataPipelineState                                      *)
(*   main.py         build_graph, check_validation                          *)
(*   agents/*.py     planner_node, sql_agent_node, validator_agent_node,    *)
(*                   run_output_agent                                       *)
(* One action per graph node and one for the conditional edge.  The        *)
(* language-model delegate and the SQLite engine are inputs drawn from     *)
(* small sets; everything the nodes do with their answers is computed as   *)
(* the code computes it.  Text is a sequence of one-character strings.     *)
(***************************************************************************)
EXTENDS Integers, Sequences, FiniteSets, TLC

VARIABLES
    user_query,         \* state.user_query ("" is the empty string)
    metadata,           \* state.metadata: None or a list of column names
    df,                 \* state.df: None or a table
    plan,               \* state.plan: None or a dict
    sql_query,          \* state.sql_query: None or the generated query
    queried_data,       \* state.queried_data: None or the result table
    validation_result,  \* state.validation_result: NoStr, "valid", "not valid"
    next,               \* state.next: "", "Output", "Planner"
    output,             \* state.output: None or the output dict
    logs,               \* state.logs
    db,                 \* the file temp_db.sqlite: None (absent) or the table in it
    pc,                 \* the graph node about to run, "END", or "raised"
    retries,            \* number of times the graph went back to planner_agent
    executed,           \* number of queries handed to the SQLite engine
    resp,               \* the answer the validator's delegate gave in this pass
    sql_answer,         \* how the delegate and the engine behaved in the last sql_agent run
    harness,            \* the script that built the graph: "main.py" or "test.py"
    plan_answer,        \* the answer the plan delegate gave in this pass
    queried_output,     \* the attribute queried_output of the state object:
                        \* AttributeError when it has none
    out_answer,         \* the answer the output delegate gave
    runs                \* the runs interleaving in sql_agent_node (ConcSpec):
                        \* for each its position, sql_query and queried_data

vars == << user_query, metadata, df, plan, sql_query, queried_data,
           validation_result, next, output, logs, db, pc, retries, executed, resp,
           sql_answer, harness, plan_answer, queried_output, out_answer, runs >>

----------------------------------------------------------------------------
(* Bounds of the exploration *)

\* how many times a run may go back to planner_agent before exploration stops
MaxRetries == 2

\* how many atoms a delegate answer is built from in ParseSpec
MaxAtoms == 3

\* how many chunks a plan delegate's answer is built from in PlanSpec
MaxPlanTokens == 4

\* how many chunks an output delegate's answer is built from in OutputSpec
MaxOutTokens == 4

----------------------------------------------------------------------------
(* Values *)

None == [kind |-> "None"]
NoStr == "<None>"

\* the declared fields of DataPipelineState; pydantic ignores any other
\* keyword given to the constructor (queried_output in main.py and test.py)
Fields == { "user_query", "metadata", "df", "plan", "plan_steps", "sme_output",
            "sql_query", "queried_data", "validation_result", "validation_status",
            "validation_feedback", "insights", "visuals", "next", "output", "logs" }

AttributeError == [kind |-> "AttributeError"]

\* getattr(state, name) for the attributes the nodes read
GetAttr(name) ==
    IF name = "queried_output" THEN queried_output
    ELSE IF name \notin Fields THEN AttributeError
    ELSE CASE name = "queried_data" -> queried_data
           [] name = "plan" -> plan
           [] name = "df" -> df
           [] name = "output" -> output
           [] OTHER -> None

\* a key that a dict does not hold
Absent == [kind |-> "absent"]

Num(n) == [kind |-> "num", val |-> n]

\* a plan dict with the keys the claims read.  empty is `not plan`; src and
\* pass record where and in which pass the dict was made (bookkeeping that
\* tells the plans of different passes apart).  Confidence is in hundredths.
PlanRecord(src, empty, pass, cols, conf, coll, hints) ==
    [kind |-> "dict", src |-> src, empty |-> empty, pass |-> pass,
     columns_to_use |-> cols, confidence |-> conf,
     filters |-> coll, aggregations |-> coll, group_by |-> coll, order_by |-> coll,
     hints |-> hints]

\* plan: Dict[str, Any] = {}
DefaultPlan == PlanRecord("default", TRUE, 0, Absent, Absent, Absent, Absent)

Columns == << "region", "sales" >>
SourceRows == << "r1", "r2" >>
Table(rows) == [kind |-> "df", rows |-> rows]

List(items) == [kind |-> "list", items |-> items]

Falsy_NoneOnly(x) == x.kind = "None"

\* `not x` for None, a list and a dict
Falsy(x) ==
    \/ x.kind = "None"
    \/ (x.kind = "list" /\ x.items = << >>)
    \/ (x.kind = "dict" /\ x.empty)

IsEmptyDF_Never(t) == FALSE

\* DataFrame.empty
IsEmptyDF(t) == t.rows = << >>

add_log_Reset(l, message) == << message >>

\* DataPipelineState.add_log: self.logs.append(message)
add_log(l, message) == Append(l, message)

----------------------------------------------------------------------------
(* Text *)

UpperCase == << "A", "B", "C", "D", "E", "F", "G", "H", "I", "J", "K", "L", "M",
                "N", "O", "P", "Q", "R", "S", "T", "U", "V", "W", "X", "Y", "Z" >>
LowerCase == << "a", "b", "c", "d", "e", "f", "g", "h", "i", "j", "k", "l", "m",
                "n", "o", "p", "q", "r", "s", "t", "u", "v", "w", "x", "y", "z" >>
WhiteSpace == { " ", "\n", "\t" }

LowerChar(c) ==
    IF \E i \in DOMAIN UpperCase : UpperCase[i] = c
    THEN LowerCase[CHOOSE i \in DOMAIN UpperCase : UpperCase[i] = c]
    ELSE c

\* str.lower()
Lower(s) == [i \in DOMAIN s |-> LowerChar(s[i])]

\* str.strip()
Strip(s) ==
    LET keep == { i \in DOMAIN s : s[i] \notin WhiteSpace } IN
    IF keep = {} THEN << >>
    ELSE LET lo == CHOOSE i \in keep : \A j \in keep : i <= j
             hi == CHOOSE i \in keep : \A j \in keep : j <= i
         IN  SubSeq(s, lo, hi)

\* sub in s
Contains(sub, s) ==
    \E i \in 0 .. (Len(s) - Len(sub)) : SubSeq(s, i + 1, i + Len(sub)) = sub

T_valid == << "v", "a", "l", "i", "d" >>
T_not == << "n", "o", "t" >>
T_not_valid == T_not \o << " " >> \o T_valid
T_None == << "N", "o", "n", "e" >>

----------------------------------------------------------------------------
(* The delegate's answers *)

Raise == [kind |-> "raise"]
Resp(text) == [kind |-> "resp", has_text |-> TRUE, text |-> text]
NoTextResp == [kind |-> "resp", has_text |-> FALSE, text |-> << >>]

Atoms == { << " " >>, << "\n" >>, T_valid, T_not, << "i", "n" >>,
           << "V", "a", "l", "i", "d" >>, << "N", "O", "T" >>, << "o", "k" >> }

RECURSIVE TextsOf(_)
TextsOf(n) ==
    IF n = 0 THEN { << >> }
    ELSE LET shorter == TextsOf(n - 1)
         IN  shorter \cup { t \o a : t \in shorter, a \in Atoms }

\* every answer of the validator's delegate explored in ParseSpec
AllResponses == { Resp(t) : t \in TextsOf(MaxAtoms) } \cup { NoTextResp, Raise }

\* the answers explored inside a whole pipeline run
PipelineResponses ==
    { Raise, NoTextResp, Resp(<< "V", "a", "l", "i", "d", "\n" >>), Resp(T_not_valid) }

\* str(response): the repr of the response object, which shows its text field
Str(r) ==
    << "r", "e", "s", "p", "(", "t", "e", "x", "t", "=" >>
    \o (IF r.has_text THEN << "'" >> \o r.text \o << "'" >> ELSE T_None)
    \o << ")" >>

----------------------------------------------------------------------------
(* planner_agent.py *)

EdgeFrom_SkipQuery(node) ==
    CASE node = "planner_agent" -> "validator_agent"
      [] node = "sql_agent" -> "validator_agent"
      [] node = "output_agent" -> "END"

\* graph.add_edge: the node that runs once node has returned
EdgeFrom(node) ==
    CASE node = "planner_agent" -> "sql_agent"
      [] node = "sql_agent" -> "validator_agent"
      [] node = "output_agent" -> "END"

\* The plan delegate's answer is a sequence of lexical chunks: braces, a
\* member of a JSON object ("confidence": 0.9 / "confidence": 7 /
\* "columns_to_use": ["region"]), a JSON number, prose that is no JSON, and
\* white space.
Members == { "conf_ok", "conf_high", "cols" }

PlanTokens == { "{", "}", "7", "junk", " " } \cup Members

PlanResp(text) == [kind |-> "resp", text |-> text]

RECURSIVE TokenSeqs(_)
TokenSeqs(n) ==
    IF n = 0 THEN { << >> }
    ELSE LET shorter == TokenSeqs(n - 1)
         IN  shorter \cup { Append(t, a) : t \in shorter, a \in PlanTokens }

\* every answer of the plan delegate explored in PlanSpec
AllPlanAnswers == { PlanResp(t) : t \in TokenSeqs(MaxPlanTokens) } \cup { Raise }

\* the answers explored inside a whole pipeline run
PipelinePlanAnswers ==
    { Raise,
      PlanResp(<< "{", "conf_ok", "cols", "}" >>),
      PlanResp(<< "{", "}" >>),
      PlanResp(<< "7" >>),
      PlanResp(<< "junk" >>) }

\* the value of the last member of t among ms, or "absent"
LastMember(t, ms) ==
    LET at == { i \in DOMAIN t : t[i] \in ms } IN
    IF at = {} THEN "absent"
    ELSE t[CHOOSE i \in at : \A j \in at : j <= i]

\* a JSON value that is no dict
Scalar == [kind |-> "scalar"]

\* json.loads(text): whether it succeeds, and the value
JsonLoads(text) ==
    LET t == SelectSeq(text, LAMBDA c : c \notin WhiteSpace)
        n == Len(t)
    IN
    IF t = << "7" >> THEN [ok |-> TRUE, value |-> Scalar]
    ELSE IF n >= 2 /\ t[1] = "{" /\ t[n] = "}" /\ \A i \in 2 .. (n - 1) : t[i] \in Members
    THEN LET cols == LastMember(t, { "cols" })
             conf == LastMember(t, { "conf_ok", "conf_high" })
         IN [ok |-> TRUE,
             value |-> PlanRecord("json", n = 2, retries,
                 IF cols = "cols" THEN List(<< "region" >>) ELSE Absent,
                 CASE conf = "conf_ok" -> Num(90)
                   [] conf = "conf_high" -> Num(700)
                   [] OTHER -> Absent,
                 Absent, Absent)]
    ELSE [ok |-> FALSE, value |-> None]

\* text.find(c) and text.rfind(c), counted from 1; 0 stands for -1
Find(text, c) ==
    LET at == { i \in DOMAIN text : text[i] = c } IN
    IF at = {} THEN 0 ELSE CHOOSE i \in at : \A j \in at : i <= j

RFind(text, c) ==
    LET at == { i \in DOMAIN text : text[i] = c } IN
    IF at = {} THEN 0 ELSE CHOOSE i \in at : \A j \in at : j <= i

\* "confidence": 0.25 of the fallback plan, in hundredths
FallbackConfidence == 25

\* metadata[:3]
FallbackColumnCount == 3

FallbackColumnsOf_All(md) == md.items

\* [col.get("column_name") for col in metadata[:3]]
FallbackColumnsOf(md) ==
    SubSeq(md.items, 1, IF Len(md.items) < FallbackColumnCount
                        THEN Len(md.items) ELSE FallbackColumnCount)

NonJsonHint == "Model returned non-JSON; inspect 'raw_model_output' for details"

\* fallback_plan
FallbackPlan ==
    PlanRecord("fallback", FALSE, retries, List(FallbackColumnsOf(metadata)),
               Num(FallbackConfidence), List(<< >>), List(<< NonJsonHint >>))

\* generate_plan_with_gemini from the delegate's text on: the value of
\* json.loads(text), else of json.loads(text[start:end+1]), else the fallback
generate_plan_with_gemini(d) ==
    LET text == Strip(d.text)
        direct == JsonLoads(text)
        start == Find(text, "{")
        end == RFind(text, "}")
        maybe == JsonLoads(SubSeq(text, start, end))
    IN
    IF direct.ok THEN direct.value
    ELSE IF start # 0 /\ end # 0 /\ end > start /\ maybe.ok THEN maybe.value
    ELSE FallbackPlan

PlannerExceptPlan_Keep(old) == old

\* except Exception: state.plan = None
PlannerExceptPlan(old) == None

\* planner_node with the delegate answering d
planner_node(d) ==
    /\ pc = "planner_agent"
    /\ IF Falsy(metadata) \/ user_query = ""
       THEN /\ logs' = add_log(logs, "Planner: missing metadata or user_query.")
            /\ UNCHANGED plan
            /\ plan_answer' = None
       ELSE /\ plan_answer' = d
            /\ IF d = Raise \/ generate_plan_with_gemini(d).kind # "dict"
               THEN \* the delegate call raises, or plan.get raises on a non-dict
                    /\ logs' = add_log(logs, "Planner error")
                    /\ plan' = PlannerExceptPlan(plan)
               ELSE /\ plan' = generate_plan_with_gemini(d)
                    /\ logs' = add_log(add_log(logs, "Planner: Generated plan with confidence"),
                                       "Planner: Passing control to SME Agent.")
    /\ pc' = EdgeFrom("planner_agent")
    /\ UNCHANGED << user_query, metadata, df, sql_query, queried_data,
                    validation_result, next, output, db, retries, executed, resp,
                    sql_answer, harness, queried_output, out_answer, runs >>

----------------------------------------------------------------------------
(* sql_agent.py *)

\* what generating and running the query does: the delegate fails, or answers
\* a query that selects every row, selects no row, or that SQLite rejects
SqlAnswers == { "raise", "select_all", "select_none", "malformed" }

Query(g) == [kind |-> "sql", shape |-> g, plan |-> plan]

\* pd.read_sql_query(sql_query, conn) on the table in the store; query and
\* pass record what the table was computed from and when (bookkeeping)
read_sql_query(q, table) ==
    [kind |-> "df", rows |-> IF q.shape = "select_all" THEN table.rows ELSE << >>,
     query |-> q, pass |-> retries]

SqlRaisesAt_NoEmptyCheck(g) ==
    IF "df" \notin Fields \/ GetAttr("df") = None THEN "precondition"
    ELSE IF "plan" \notin Fields \/ GetAttr("plan") = None THEN "precondition"
    ELSE IF Falsy(plan) \/ g = "raise" THEN "generate"
    ELSE IF g = "malformed" THEN "execute"
    ELSE "none"

\* the step at which sql_agent_node raises, or "none"
SqlRaisesAt(g) ==
    IF "df" \notin Fields \/ GetAttr("df") = None THEN "precondition"
    ELSE IF "plan" \notin Fields \/ GetAttr("plan") = None THEN "precondition"
    ELSE IF IsEmptyDF(df) THEN "df_to_sqlite"
    ELSE IF Falsy(plan) \/ g = "raise" THEN "generate"
    ELSE IF g = "malformed" THEN "execute"
    ELSE "none"

FrameAfter_to_sql_Emptied(frame) == Table(<< >>)

\* df.to_sql(table_name, conn, ...) copies the frame and leaves it as it is
FrameAfter_to_sql(frame) == frame

SqlExceptResult_Stale(old) == old

\* except Exception: state.queried_data = None
SqlExceptResult(old) == None

SqlExceptLog_Silent == << >>

\* except Exception: state.add_log(f"SQL Agent Error: {str(e)}")
SqlExceptLog == << "SQL Agent Error" >>

\* sql_agent_node with the delegate and the engine behaving as g
sql_agent_node(g) ==
    /\ pc = "sql_agent"
    /\ LET at == SqlRaisesAt(g)
           loaded == at \in { "generate", "execute", "none" }
           generated == at \in { "execute", "none" }
       IN
       /\ db' = IF loaded THEN Table(df.rows) ELSE db
       /\ df' = IF loaded THEN FrameAfter_to_sql(df) ELSE df
       /\ sql_query' = IF generated THEN Query(g) ELSE sql_query
       /\ executed' = IF generated THEN executed + 1 ELSE executed
       /\ queried_data' = IF at = "none" THEN read_sql_query(Query(g), Table(df.rows))
                          ELSE SqlExceptResult(queried_data)
       /\ LET l1 == IF loaded THEN add_log(logs, "SQL Agent: DataFrame loaded") ELSE logs
              l2 == IF generated THEN add_log(l1, "SQL Agent: Generated SQL query via LLM")
                    ELSE l1
          IN  logs' = IF at = "none"
                      THEN add_log(l2, "SQL Agent: Query executed successfully.")
                      ELSE l2 \o SqlExceptLog
       /\ sql_answer' = IF at = "precondition" \/ at = "df_to_sqlite" \/ Falsy(plan)
                        THEN "" ELSE g
    /\ pc' = EdgeFrom("sql_agent")
    /\ UNCHANGED << user_query, metadata, plan, validation_result, next,
                    output, retries, resp, harness, plan_answer, queried_output, out_answer, runs >>

----------------------------------------------------------------------------
(* validator_agent.py *)

\* text = getattr(response, "text", None); if not text: text = str(response)
RawText(r) == IF (~r.has_text) \/ r.text = << >> THEN Str(r) ELSE r.text

IsValidText_NoNegation(text) == Contains(T_valid, text)

\* the test of the first branch: "valid" in text and "not" not in text
IsValidText(text) == Contains(T_valid, text) /\ ~Contains(T_not, text)

\* validate_output_with_gemini, from the delegate's response to the verdict
ParseVerdict(r) ==
    LET text == Lower(Strip(RawText(r))) IN
    IF IsValidText(text) THEN "valid"
    ELSE IF Contains(T_not_valid, text) THEN "not valid"
    ELSE "not valid"

\* result = "valid" (the assignment between the log line and the branch)
RouteResult(result) == "valid"

\* if result == "valid": state.next = "Output" else: state.next = "Planner"
NextFor(result) == IF result = "valid" THEN "Output" ELSE "Planner"

ValidatorPreconditionFails_Never == FALSE

\* if state.plan is None or state.queried_data is None: raise ValueError
ValidatorPreconditionFails == GetAttr("plan") = None \/ GetAttr("queried_data") = None

ValidatorExceptVerdict_Keep(old) == old

\* except Exception: state.validation_result = "not valid"
ValidatorExceptVerdict(old) == "not valid"

\* validator_agent_node with the delegate answering v
validator_agent_node(v) ==
    /\ pc = "validator_agent"
    /\ resp' = IF ValidatorPreconditionFails THEN None ELSE v
    /\ IF ValidatorPreconditionFails \/ v = Raise
       THEN /\ logs' = add_log(logs, "Validator Agent Error")
            /\ validation_result' = ValidatorExceptVerdict(validation_result)
            /\ next' = "Planner"
       ELSE LET result == ParseVerdict(v) IN
            /\ validation_result' = result
            /\ logs' = add_log(logs, IF result = "valid"
                                    THEN "Validator Agent: Validation result -> valid"
                                    ELSE "Validator Agent: Validation result -> not valid")
            /\ next' = NextFor(RouteResult(result))
    /\ pc' = "check_validation"
    /\ UNCHANGED << user_query, metadata, df, plan, sql_query, queried_data,
                    output, db, retries, executed, sql_answer, harness, plan_answer, queried_output, out_answer, runs >>

----------------------------------------------------------------------------
(* main.py *)

check_validation_ByNext(vr) ==
    IF next = "Output" THEN "output_agent" ELSE "planner_agent"

\* check_validation: the node the conditional edge selects, or "raised"
check_validation(vr) ==
    IF "validation_result" \in Fields /\ vr = NoStr THEN "raised"
    ELSE IF "validation_result" \in Fields /\ vr = "valid" THEN "output_agent"
    ELSE "planner_agent"

\* check_validation as test.py defines it: a None or empty verdict is not valid
check_validation_test(vr) ==
    IF "validation_result" \in Fields /\ vr # NoStr /\ vr # "" /\ vr = "valid"
    THEN "output_agent"
    ELSE "planner_agent"

\* the conditional edge after validator_agent
ConditionalEdge ==
    /\ pc = "check_validation"
    /\ LET to == IF harness = "main.py" THEN check_validation(validation_result)
                 ELSE check_validation_test(validation_result)
       IN
       /\ (to = "planner_agent") => retries < MaxRetries
       /\ pc' = to
       /\ retries' = IF to = "planner_agent" THEN retries + 1 ELSE retries
    /\ resp' = None
    /\ plan_answer' = None
    /\ UNCHANGED << user_query, metadata, df, plan, sql_query, queried_data,
                    validation_result, next, output, logs, db, executed, sql_answer,
                    harness, queried_output, out_answer, runs >>

----------------------------------------------------------------------------
(* output_agent.py *)

\* The output delegate's response.content is a sequence of lexical chunks:
\* braces, a member of a JSON object ("charts": [] / "insights": ["..."] /
\* "insights": null), the JSON list [], prose that is no JSON, white space.
OutMembers == { "charts", "insights", "insights_null" }

OutTokens == { "{", "}", "[]", "text", " " } \cup OutMembers

OutResp(content) == [kind |-> "resp", content |-> content]

RECURSIVE OutTokenSeqs(_)
OutTokenSeqs(n) ==
    IF n = 0 THEN { << >> }
    ELSE LET shorter == OutTokenSeqs(n - 1)
         IN  shorter \cup { Append(t, a) : t \in shorter, a \in OutTokens }

\* every answer of the output delegate explored in OutputSpec
AllOutAnswers == { OutResp(t) : t \in OutTokenSeqs(MaxOutTokens) } \cup { Raise }

\* the answers explored inside a whole pipeline run
OutAnswers ==
    { Raise, OutResp(<< "{", "charts", "insights", "}" >>), OutResp(<< "text" >>) }

\* json.loads(response.content): whether it succeeds, and the value
JsonLoadsOutput(content) ==
    LET t == SelectSeq(content, LAMBDA c : c \notin WhiteSpace)
        n == Len(t)
    IN
    IF t = << "[]" >> THEN [ok |-> TRUE, value |-> List(<< >>)]
    ELSE IF n >= 2 /\ t[1] = "{" /\ t[n] = "}" /\ \A i \in 2 .. (n - 1) : t[i] \in OutMembers
    THEN LET charts == LastMember(t, { "charts" })
             insights == LastMember(t, { "insights", "insights_null" })
         IN [ok |-> TRUE,
             value |-> [kind |-> "dict",
                        charts |-> IF charts = "charts" THEN List(<< >>) ELSE Absent,
                        insights |-> CASE insights = "insights" -> List(<< << "text" >> >>)
                                       [] insights = "insights_null" -> None
                                       [] OTHER -> Absent]]
    ELSE [ok |-> FALSE, value |-> None]

OutputFallback_Raw(content) ==
    [kind |-> "dict", charts |-> List(<< >>), insights |-> List(<< content >>)]

\* {"charts": [], "insights": [response.content.strip()]}
OutputFallback(content) ==
    [kind |-> "dict", charts |-> List(<< >>), insights |-> List(<< Strip(content) >>)]

\* parsed_output of the try / except around json.loads
ParseOutput(content) ==
    IF JsonLoadsOutput(content).ok THEN JsonLoadsOutput(content).value
    ELSE OutputFallback(content)

Aborted_Retry == "planner_agent"

\* an exception that leaves a node propagates out of app.invoke: the run is over
Aborted == "raised"

\* run_output_agent with the delegate answering o
run_output_agent(o) ==
    /\ pc = "output_agent"
    /\ LET qo == GetAttr("queried_output") IN
       IF qo = AttributeError \/ qo = None \/ IsEmptyDF(qo)
       THEN /\ pc' = Aborted
            /\ UNCHANGED << output, out_answer, runs >>
       ELSE /\ out_answer' = o
            /\ IF o = Raise
               THEN /\ pc' = Aborted
                    /\ UNCHANGED output
               ELSE /\ pc' = EdgeFrom("output_agent")
                    /\ output' = ParseOutput(o.content)
    /\ UNCHANGED << user_query, metadata, df, plan, sql_query, queried_data,
                    validation_result, next, logs, db, retries, executed, resp,
                    sql_answer, harness, plan_answer, queried_output, runs >>

----------------------------------------------------------------------------
(* A pipeline run: app.invoke(state) on the graph of build_graph *)

Init ==
    /\ user_query \in { "", "total sales by region" }
    /\ metadata \in { None, List(<< >>), List(Columns) }
    /\ df \in { None, Table(<< >>), Table(SourceRows) }
    /\ plan = DefaultPlan
    /\ sql_query = None
    /\ queried_data = None
    /\ validation_result = NoStr
    /\ next = ""
    /\ output = None
    /\ logs = << >>
    /\ db = None
    /\ pc = "planner_agent"
    /\ retries = 0
    /\ executed = 0
    /\ resp = None
    /\ sql_answer = ""
    /\ harness \in { "main.py", "test.py" }
    /\ plan_answer = None
    /\ queried_output = AttributeError
    /\ out_answer = None
    /\ runs = << >>

Next ==
    \/ \E d \in PipelinePlanAnswers : planner_node(d)
    \/ \E g \in SqlAnswers : sql_agent_node(g)
    \/ \E v \in PipelineResponses : validator_agent_node(v)
    \/ ConditionalEdge
    \/ \E o \in OutAnswers : run_output_agent(o)

Spec == Init /\ [][Next]_vars

\* app.invoke runs the node the graph has selected until none is left
LiveSpec == Spec /\ WF_vars(Next)

----------------------------------------------------------------------------
(* The validator on every answer of its delegate: a run that has planned    *)
(* and queried successfully in its first pass and is about to validate.     *)

ParseInit ==
    LET p0 == PlanRecord("json", FALSE, 0, List(<< "region" >>), Num(90), Absent, Absent)
        q0 == [kind |-> "sql", shape |-> "select_all", plan |-> p0]
    IN
    /\ user_query = "total sales by region"
    /\ metadata = List(Columns)
    /\ df = Table(SourceRows)
    /\ plan = p0
    /\ sql_query = q0
    /\ queried_data = [kind |-> "df", rows |-> SourceRows, query |-> q0, pass |-> 0]
    /\ validation_result = NoStr
    /\ next = ""
    /\ output = None
    /\ logs = << "Planner: Generated plan with confidence",
                 "Planner: Passing control to SME Agent.",
                 "SQL Agent: DataFrame loaded",
                 "SQL Agent: Generated SQL query via LLM",
                 "SQL Agent: Query executed successfully." >>
    /\ db = Table(SourceRows)
    /\ pc = "validator_agent"
    /\ retries = 0
    /\ executed = 1
    /\ resp = None
    /\ sql_answer = "select_all"
    /\ harness = "main.py"
    /\ plan_answer = PlanResp(<< "{", "conf_ok", "cols", "}" >>)
    /\ queried_output = AttributeError
    /\ out_answer = None
    /\ runs = << >>

ParseNext == \E v \in AllResponses : validator_agent_node(v)

ParseSpec == ParseInit /\ [][ParseNext]_vars

----------------------------------------------------------------------------
(* The planner on every answer of its delegate, at the start of a run *)

WideColumns == << "region", "sales", "quarter", "product" >>

PlanInit ==
    /\ user_query = "total sales by region"
    /\ metadata \in { List(Columns), List(WideColumns) }
    /\ df = Table(SourceRows)
    /\ plan = DefaultPlan
    /\ sql_query = None
    /\ queried_data = None
    /\ validation_result = NoStr
    /\ next = ""
    /\ output = None
    /\ logs = << >>
    /\ db = None
    /\ pc = "planner_agent"
    /\ retries = 0
    /\ executed = 0
    /\ resp = None
    /\ sql_answer = ""
    /\ harness = "main.py"
    /\ plan_answer = None
    /\ queried_output = AttributeError
    /\ out_answer = None
    /\ runs = << >>

PlanNext ==
    /\ pc = "planner_agent"
    /\ \E d \in AllPlanAnswers : planner_node(d)

PlanSpec == PlanInit /\ [][PlanNext]_vars

----------------------------------------------------------------------------
(* run_output_agent on every answer of its delegate, applied after a valid *)
(* verdict to a state object that carries the attribute queried_output     *)

OutputInit ==
    LET p0 == PlanRecord("json", FALSE, 0, List(<< "region" >>), Num(90), Absent, Absent)
        q0 == [kind |-> "sql", shape |-> "select_all", plan |-> p0]
    IN
    /\ user_query = "total sales by region"
    /\ metadata = List(Columns)
    /\ df = Table(SourceRows)
    /\ plan = p0
    /\ sql_query = q0
    /\ queried_data = [kind |-> "df", rows |-> SourceRows, query |-> q0, pass |-> 0]
    /\ validation_result = "valid"
    /\ next = "Output"
    /\ output = None
    /\ logs = << "Planner: Generated plan with confidence",
                 "Planner: Passing control to SME Agent.",
                 "SQL Agent: DataFrame loaded",
                 "SQL Agent: Generated SQL query via LLM",
                 "SQL Agent: Query executed successfully.",
                 "Validator Agent: Validation result -> valid" >>
    /\ db = Table(SourceRows)
    /\ pc = "output_agent"
    /\ retries = 0
    /\ executed = 1
    /\ resp = None
    /\ sql_answer = "select_all"
    /\ harness = "main.py"
    /\ plan_answer = None
    /\ queried_output \in { None, Table(<< >>), Table(SourceRows) }
    /\ out_answer = None
    /\ runs = << >>

OutputNext ==
    /\ pc = "output_agent"
    /\ \E o \in AllOutAnswers : run_output_agent(o)

OutputSpec == OutputInit /\ [][OutputNext]_vars

----------------------------------------------------------------------------
(* Two runs in one working directory, both in sql_agent_node, interleaving  *)
(* at its statements; db is the one file temp_db.sqlite both of them use.   *)

Runs == { 1, 2 }

\* the df of each run
RunFrame(r) == IF r = 1 THEN Table(SourceRows) ELSE Table(<< "r3" >>)

\* a database file without the table "data" (sqlite3.connect made it)
EmptyStore == [kind |-> "empty_db"]

RunState(step, sq, qd) ==
    [step |-> step, sql_query |-> sq, queried_data |-> qd]

RunStep(r, new) ==
    /\ runs' = [runs EXCEPT ![r] = new]
    /\ UNCHANGED << user_query, metadata, df, plan, sql_query, queried_data,
                    validation_result, next, output, logs, pc, retries, executed,
                    resp, sql_answer, harness, plan_answer, queried_output,
                    out_answer >>

\* except Exception: state.queried_data = None; return state
RunFailed(r) == RunState("failed", runs[r].sql_query, SqlExceptResult(runs[r].queried_data))

\* df_to_sqlite: if os.path.exists(db_path)
os_path_exists(r) ==
    /\ r \in DOMAIN runs
    /\ runs[r].step = "exists"
    /\ RunStep(r, [runs[r] EXCEPT !.step = IF db # None THEN "remove" ELSE "to_sql"])
    /\ UNCHANGED db

\* df_to_sqlite: os.remove(db_path), which raises when the file is gone
os_remove(r) ==
    /\ r \in DOMAIN runs
    /\ runs[r].step = "remove"
    /\ IF db = None
       THEN RunStep(r, RunFailed(r)) /\ UNCHANGED db
       ELSE RunStep(r, [runs[r] EXCEPT !.step = "to_sql"]) /\ db' = None

\* df_to_sqlite: sqlite3.connect(db_path); df.to_sql(..., if_exists="replace")
to_sql(r) ==
    /\ r \in DOMAIN runs
    /\ runs[r].step = "to_sql"
    /\ db' = Table(RunFrame(r).rows)
    /\ RunStep(r, [runs[r] EXCEPT !.step = "generate"])

\* sql_query = generate_sql_with_llm(state.plan, state.df); state.sql_query = sql_query
generate_sql(r, g) ==
    /\ r \in DOMAIN runs
    /\ runs[r].step = "generate"
    /\ IF g = "raise"
       THEN RunStep(r, RunFailed(r))
       ELSE RunStep(r, [runs[r] EXCEPT !.step = "execute", !.sql_query = Query(g)])
    /\ UNCHANGED db

\* conn = sqlite3.connect(db_path); df_result = pd.read_sql_query(sql_query, conn)
execute_sql(r) ==
    /\ r \in DOMAIN runs
    /\ runs[r].step = "execute"
    /\ IF db = None \/ db = EmptyStore \/ runs[r].sql_query.shape = "malformed"
       THEN /\ RunStep(r, RunFailed(r))
            /\ db' = IF db = None THEN EmptyStore ELSE db
       ELSE /\ RunStep(r, [runs[r] EXCEPT !.step = "done",
                              !.queried_data = read_sql_query(runs[r].sql_query, db)])
            /\ UNCHANGED db

ConcInit ==
    LET p0 == PlanRecord("json", FALSE, 0, List(<< "region" >>), Num(90), Absent, Absent)
    IN
    /\ user_query = "total sales by region"
    /\ metadata = List(Columns)
    /\ df = Table(SourceRows)
    /\ plan = p0
    /\ sql_query = None
    /\ queried_data = None
    /\ validation_result = NoStr
    /\ next = ""
    /\ output = None
    /\ logs = << >>
    /\ db \in { None, Table(SourceRows) }
    /\ pc = "sql_agent"
    /\ retries = 0
    /\ executed = 0
    /\ resp = None
    /\ sql_answer = ""
    /\ harness = "main.py"
    /\ plan_answer = None
    /\ queried_output = AttributeError
    /\ out_answer = None
    /\ runs = [r \in Runs |-> RunState("exists", None, None)]

ConcNext ==
    \E r \in Runs :
        \/ os_path_exists(r)
        \/ os_remove(r)
        \/ to_sql(r)
        \/ \E g \in SqlAnswers : generate_sql(r, g)
        \/ execute_sql(r)

ConcSpec == ConcInit /\ [][ConcNext]_vars

----------------------------------------------------------------------------
(* Claims *)

\* the precondition sql_agent_node checks before it touches the store
SqlPreconditionFails == df = None \/ IsEmptyDF(df) \/ plan = None

\* the entries of logs' that the step appended
Appended == SubSeq(logs', Len(logs) + 1, Len(logs'))

IsPrefix(a, b) == Len(a) <= Len(b) /\ SubSeq(b, 1, Len(a)) = a

Count(seq, x) == Cardinality({ i \in DOMAIN seq : seq[i] = x })

\* C1: the number of re-entries into planner_agent after a NotValid verdict
\* is bounded by a fixed cap, so a run whose validation never succeeds ends.
\* The graph has no such cap: the only limit on retries in the model is the
\* exploration bound MaxRetries, and a cap would keep retries below it.
C1_RetriesCapped == retries < MaxRetries

\* C2: after validator_agent returns, the next node is output_agent iff the
\* verdict is "valid" and planner_agent iff it is "not valid"; there is no
\* other successor.
C2_RouteByVerdict ==
    [][ pc = "check_validation" =>
          /\ pc' \in { "output_agent", "planner_agent" }
          /\ (pc' = "output_agent") <=> (validation_result = "valid")
          /\ (pc' = "planner_agent") <=> (validation_result = "not valid") ]_vars

C2_Witness ==
    /\ pc = "planner_agent"
    /\ retries = 1
    /\ validation_result = "not valid"
    /\ queried_data # None

\* C3: once validator_agent has returned, state.next is "Output" exactly when
\* state.validation_result is "valid" and "Planner" exactly when it is
\* "not valid".
C3_RouteSignalDerived ==
    pc = "check_validation" =>
        /\ (next = "Output") <=> (validation_result = "valid")
        /\ (next = "Planner") <=> (validation_result = "not valid")

\* C4: every node returns normally: no run is aborted by an error raised out
\* of a node.
C4_NoStageRaises == pc # "raised"

\* C5: run_output_agent fails its precondition exactly when the table
\* sql_agent_node wrote (queried_data) is None or empty, and returns with an
\* output otherwise.
C5_OutputChecksQueriedData ==
    [][ pc = "output_agent" =>
          IF queried_data = None \/ IsEmptyDF(queried_data)
          THEN pc' = "raised"
          ELSE pc' = "END" /\ output' # None ]_vars

\* C6: when validator_agent or output_agent is about to run with a table in
\* queried_data, that table was produced in the current pass by running the
\* query in sql_query, which was generated from the plan now in state.
C6_ResultFresh ==
    (pc \in { "validator_agent", "output_agent" } /\ queried_data # None) =>
        /\ queried_data.pass = retries
        /\ queried_data.query = sql_query
        /\ queried_data.query.plan = plan

C6_Witness ==
    /\ pc = "validator_agent"
    /\ retries = 1
    /\ queried_data # None
    /\ plan # None
    /\ plan.pass = 1

\* the answer is empty or only whitespace
AnswerBlank(r) == (~r.has_text) \/ Strip(r.text) = << >>

\* the answer holds the valid token and the negated token
AnswerBothTokens(r) ==
    r.has_text /\ Contains(T_valid, Lower(r.text)) /\ Contains(T_not_valid, Lower(r.text))

\* C7: the verdict is never "valid" when the delegate's answer is empty, only
\* whitespace, or holds both the valid token and the negated token.
C7_NoValidOnBlankOrBoth ==
    (pc = "check_validation" /\ resp.kind = "resp"
        /\ (AnswerBlank(resp) \/ AnswerBothTokens(resp)))
    => validation_result # "valid"

C7_Witness ==
    /\ pc = "check_validation"
    /\ resp.kind = "resp"
    /\ AnswerBothTokens(resp)
    /\ validation_result = "not valid"

\* C8: when validator_agent is entered with plan None or queried_data None,
\* or its delegate call fails, it returns with the verdict "not valid" and
\* next "Planner", appends one log entry, and the graph goes to
\* planner_agent; so does every pass whose sql_agent run failed.
C8_ValidatorFailureRetries ==
    /\ [][ (pc = "validator_agent" /\ (plan = None \/ queried_data = None \/ resp' = Raise))
           => /\ pc' = "check_validation"
              /\ validation_result' = "not valid"
              /\ next' = "Planner"
              /\ Len(Appended) = 1
              /\ IsPrefix(logs, logs') ]_vars
    /\ [][ (pc = "check_validation" /\ (plan = None \/ queried_data = None \/ resp = Raise))
           => pc' = "planner_agent" ]_vars
    /\ [](( /\ pc = "check_validation"
            /\ Len(logs) >= 2
            /\ logs[Len(logs) - 1] = "SQL Agent Error")
           => (validation_result = "not valid" /\ next = "Planner"))

C8_Witness ==
    /\ pc = "planner_agent"
    /\ retries = 1
    /\ queried_data = None
    /\ validation_result = "not valid"
    /\ next = "Planner"
    /\ logs[Len(logs)] = "Validator Agent Error"

\* C9 as stated: when sql_agent_node is entered with df None or empty, or
\* with plan None, it runs no query and leaves queried_data as it was.
C9_PreconditionLeavesResult ==
    [][ (pc = "sql_agent" /\ SqlPreconditionFails)
        => executed' = executed /\ queried_data' = queried_data ]_vars

\* C9 amended: when sql_agent_node is entered with df None or empty, or with
\* plan None, it runs no query, leaves the store and sql_query alone, and
\* sets queried_data to None.
C9_PreconditionClearsResult ==
    [][ (pc = "sql_agent" /\ SqlPreconditionFails)
        => /\ executed' = executed
           /\ db' = db
           /\ sql_query' = sql_query
           /\ queried_data' = None
           /\ pc' = "validator_agent" ]_vars

C9_Witness ==
    /\ pc = "validator_agent"
    /\ plan = None
    /\ queried_data = None
    /\ retries >= 1
    /\ Count(logs, "SQL Agent: Query executed successfully.") >= 1
    /\ logs[Len(logs)] = "SQL Agent Error"

\* C10: when generating or running the query fails inside sql_agent_node, the
\* node returns with queried_data None and exactly one failure entry appended
\* to logs; control goes on to validator_agent.
C10_QueryFailureContained ==
    [][ (pc = "sql_agent" /\ ~SqlPreconditionFails
            /\ (Falsy(plan) \/ sql_answer' \in { "raise", "malformed" }))
        => /\ pc' = "validator_agent"
           /\ queried_data' = None
           /\ IsPrefix(logs, logs')
           /\ Count(Appended, "SQL Agent Error") = 1
           /\ logs'[Len(logs')] = "SQL Agent Error" ]_vars

C10_Witness ==
    /\ pc = "validator_agent"
    /\ sql_answer = "malformed"
    /\ queried_data = None
    /\ retries >= 1
    /\ Count(logs, "SQL Agent: Query executed successfully.") >= 1
    /\ logs[Len(logs)] = "SQL Agent Error"

\* C11: with an empty source table, in every pass sql_agent_node fails before
\* the store is opened or written, queried_data stays None, validator_agent
\* gives "not valid" without calling its delegate, and the graph goes back to
\* planner_agent.
C11_EmptySourceRetries ==
    (df # None /\ df.rows = << >>) =>
        /\ db = None
        /\ executed = 0
        /\ sql_query = None
        /\ queried_data = None
        /\ resp = None
        /\ validation_result \in { NoStr, "not valid" }
        /\ (pc = "check_validation" => validation_result = "not valid")
        /\ pc \in { "planner_agent", "sql_agent", "validator_agent", "check_validation" }

C11_Witness ==
    /\ df # None
    /\ df.rows = << >>
    /\ pc = "planner_agent"
    /\ retries >= 1
    /\ plan # None
    /\ ~plan.empty
    /\ validation_result = "not valid"
    /\ logs[Len(logs)] = "Validator Agent Error"

\* text[start:end+1] from the first "{" to the last "}", empty when there is
\* no such slice
BetweenBraces(text) ==
    IF Find(text, "{") # 0 /\ RFind(text, "}") > Find(text, "{")
    THEN SubSeq(text, Find(text, "{"), RFind(text, "}"))
    ELSE << >>

\* the answer is JSON neither as a whole nor from its first "{" to its last "}"
NotJson(text) == ~ JsonLoads(text).ok /\ ~ JsonLoads(BetweenBraces(text)).ok

\* C12: whenever the plan delegate returns text that cannot be parsed as
\* JSON, neither directly nor from its first "{" to its last "}",
\* planner_node returns normally with the fallback plan: columns_to_use are
\* the names of the first at most three metadata columns, filters,
\* aggregations, group_by and order_by are empty, confidence is below 0.3, a
\* hint flags the non-JSON output, and the graph goes on to sql_agent.
C12_FallbackOnNonJson ==
    (pc = "sql_agent" /\ plan_answer.kind = "resp" /\ NotJson(plan_answer.text)) =>
        /\ plan # None
        /\ plan.columns_to_use.kind = "list"
        /\ LET cols == plan.columns_to_use.items IN
           /\ Len(cols) <= 3
           /\ Len(cols) <= Len(metadata.items)
           /\ Len(cols) = 3 \/ Len(cols) = Len(metadata.items)
           /\ \A i \in DOMAIN cols : cols[i] = metadata.items[i]
        /\ plan.filters = List(<< >>)
        /\ plan.aggregations = List(<< >>)
        /\ plan.group_by = List(<< >>)
        /\ plan.order_by = List(<< >>)
        /\ plan.confidence.kind = "num"
        /\ plan.confidence.val < 30
        /\ plan.hints.kind = "list"
        /\ \E i \in DOMAIN plan.hints.items : plan.hints.items[i] = NonJsonHint
        /\ logs[Len(logs)] = "Planner: Passing control to SME Agent."

C12_Witness ==
    /\ pc = "sql_agent"
    /\ plan_answer.kind = "resp"
    /\ NotJson(plan_answer.text)
    /\ Find(plan_answer.text, "{") # 0
    /\ RFind(plan_answer.text, "}") > Find(plan_answer.text, "{")
    /\ Len(metadata.items) > 3
    /\ plan # None
    /\ plan.src = "fallback"
    /\ Len(plan.columns_to_use.items) = 3

\* C13: for non-empty metadata and user_query and every response of the plan
\* delegate, the plan planner_node leaves in state has a confidence in [0,1]
\* and a columns_to_use that is not null.
C13_PlanWellFormed ==
    (pc = "sql_agent" /\ plan_answer.kind = "resp") =>
        /\ plan # None
        /\ plan.confidence.kind = "num"
        /\ plan.confidence.val >= 0
        /\ plan.confidence.val <= 100
        /\ plan.columns_to_use.kind = "list"

\* x is text with the white space at both ends removed
IsTrimmed(x, text) ==
    /\ x = << >> \/ (x[1] \notin WhiteSpace /\ x[Len(x)] \notin WhiteSpace)
    /\ \E i \in 1 .. (Len(text) + 1) :
          /\ i + Len(x) - 1 <= Len(text)
          /\ SubSeq(text, i, i + Len(x) - 1) = x
          /\ \A k \in DOMAIN text :
                (k < i \/ k > i + Len(x) - 1) => text[k] \in WhiteSpace

C16_LogsAppendOnly == [][ IsPrefix(logs, logs') ]_vars

C16_Witness ==
    /\ retries >= 1
    /\ pc = "validator_agent"
    /\ Len(logs) >= 6
    /\ Count(logs, "SQL Agent Error") >= 1
    /\ Count(logs, "SQL Agent: Query executed successfully.") >= 1

\* C17: every invocation of a node appends to logs: after planner_agent,
\* sql_agent, validator_agent and output_agent, on every path, logs is
\* strictly longer than before.
C17_EveryStageAppends ==
    [][ (pc \in { "planner_agent", "sql_agent", "validator_agent", "output_agent" })
        => (Len(logs') > Len(logs)) ]_vars

\* C18 as stated: after every planner_node run on a retry pass, plan is the
\* plan obtained in that run (from the delegate or the fallback) or None.
C18_RetryReplacesPlan ==
    [][ (pc = "planner_agent" /\ retries >= 1)
        => (plan' = None
            \/ (plan'.pass = retries /\ plan'.src \in { "json", "fallback" })) ]_vars

\* C18 amended: after a planner_node run on a retry pass with metadata and
\* user_query present, plan is None or exactly the plan made from this run's
\* delegate answer, never an earlier pass's plan nor a mix of the two; with
\* metadata or user_query missing the run leaves plan as it was, and that is
\* the plan the run started with, {}.
C18_RetryReplacesPlanGivenInputs ==
    [][ (pc = "planner_agent" /\ retries >= 1)
        => IF Falsy(metadata) \/ user_query = ""
           THEN plan' = plan /\ plan = DefaultPlan
           ELSE plan' = None
                \/ (/\ plan'.pass = retries
                    /\ plan'.src \in { "json", "fallback" }
                    /\ plan' = generate_plan_with_gemini(plan_answer')) ]_vars

C18_Witness ==
    /\ pc = "sql_agent"
    /\ retries = 1
    /\ plan # None
    /\ plan.pass = 1
    /\ plan.src = "fallback"
    /\ Count(logs, "Planner: Passing control to SME Agent.") = 2

\* C19: output is populated at most once per run: output_agent runs at most
\* once (it is entered only from the conditional edge and nothing runs after
\* it, whether it returns or raises), and output is None in every state
\* before output_agent has run.
C19_OutputOnce ==
    [][ /\ (pc \notin { "END", Aborted }) => output = None
        /\ (pc' = "output_agent") => (pc = "check_validation")
        /\ (pc = "output_agent") => (pc' \in { "END", Aborted })
        /\ pc \notin { "END", Aborted } ]_vars

C19_Witness ==
    /\ pc = Aborted
    /\ retries >= 1
    /\ validation_result = "valid"
    /\ next = "Output"
    /\ output = None

\* C20: when the conditional edge is evaluated, validation_result has been
\* set by the validator_agent run of the current pass: it is not None, and it
\* is the verdict that run has just logged.
C20_VerdictSetThisPass ==
    pc = "check_validation" =>
        /\ validation_result \in { "valid", "not valid" }
        /\ Len(logs) >= 1
        /\ (validation_result = "valid")
             <=> (logs[Len(logs)] = "Validator Agent: Validation result -> valid")
        /\ (validation_result = "not valid")
             <=> (logs[Len(logs)] \in { "Validator Agent: Validation result -> not valid",
                                        "Validator Agent Error" })

C20_Witness ==
    /\ pc = "check_validation"
    /\ retries >= 1
    /\ validation_result = "valid"
    /\ Count(logs, "Validator Agent: Validation result -> not valid") >= 1

\* C21: user_query, metadata and df are unchanged by every node: in every
\* reachable state of a run, after any number of retries and failures, they
\* are the values the run was started with.
C21_InputsUnchanged ==
    [][ user_query' = user_query /\ metadata' = metadata /\ df' = df ]_vars

C21_Witness ==
    /\ pc = "check_validation"
    /\ retries >= 1
    /\ df = Table(SourceRows)
    /\ metadata = List(Columns)
    /\ db = Table(SourceRows)
    /\ Count(logs, "SQL Agent Error") >= 1
    /\ Count(logs, "SQL Agent: Query executed successfully.") >= 1

\* C22: the store is not shared between concurrent runs: when two runs
\* interleave the steps of sql_agent_node, the query of each run is executed
\* against a store made from that run's own df, so a run that has finished
\* the node holds the rows its query selects from its own df.
C22_StoreNotShared ==
    \A r \in DOMAIN runs :
        (runs[r].step = "done") =>
            runs[r].queried_data.rows =
                read_sql_query(runs[r].sql_query, RunFrame(r)).rows

\* a plan without the bookkeeping of the pass it was made in
PlanContent(p) == [p EXCEPT !.pass = 0]

\* C23: sql_agent_node is idempotent: run again with the same plan and the
\* same df as the run that produced the sql_query and queried_data now in
\* state, it yields the same sql_query and a queried_data with the same rows.
C23_QueryStageIdempotent ==
    [][ (/\ pc = "sql_agent"
         /\ plan # None
         /\ sql_query # None
         /\ queried_data # None
         /\ queried_data.query = sql_query
         /\ PlanContent(sql_query.plan) = PlanContent(plan))
        => (/\ sql_query'.shape = sql_query.shape
            /\ queried_data' # None
            /\ queried_data'.rows = queried_data.rows) ]_vars

\* C24: the nodes of a run execute strictly in sequence and none is skipped:
\* sql_agent starts only when planner_agent has just returned, validator_agent
\* only when sql_agent has just returned in the same pass, and both edges are
\* taken whatever the node left behind (plan None, queried_data None).
C24_StagesInSequence ==
    [][ /\ (pc' = "sql_agent") => (pc = "planner_agent")
        /\ (pc' = "validator_agent") => (pc = "sql_agent")
        /\ (pc = "planner_agent") => (pc' = "sql_agent" /\ retries' = retries)
        /\ (pc = "sql_agent") => (pc' = "validator_agent" /\ retries' = retries) ]_vars

C24_Witness ==
    /\ pc = "validator_agent"
    /\ retries >= 1
    /\ plan = None
    /\ queried_data = None
    /\ logs[Len(logs)] = "SQL Agent Error"
    /\ logs[Len(logs) - 1] = "Planner error"

\* C25: one sql_query per plan: whenever sql_agent_node has returned, a
\* sql_query in state that is not None was generated from the plan now in
\* state, also when this sql_agent_node run failed.
C25_QueryFromCurrentPlan ==
    (pc \in { "validator_agent", "check_validation" } /\ sql_query # None)
        => sql_query.plan = plan

IsLetter(c) == \E k \in DOMAIN LowerCase : c = LowerCase[k] \/ c = UpperCase[k]

\* word occurs in text with no letter next to it on either side
ContainsWord(word, text) ==
    \E i \in 1 .. (Len(text) - Len(word) + 1) :
        /\ SubSeq(text, i, i + Len(word) - 1) = word
        /\ (i = 1 \/ ~ IsLetter(text[i - 1]))
        /\ (i + Len(word) > Len(text) \/ ~ IsLetter(text[i + Len(word)]))

\* C26: for every response text of the validator's delegate the verdict is
\* "valid" only if the text holds the token valid, not as part of another
\* word, and does not hold the negated token "not valid".
C26_ValidOnlyOnAffirmativeToken ==
    (pc = "check_validation" /\ resp.kind = "resp" /\ resp.has_text
     /\ validation_result = "valid")
        => /\ ContainsWord(T_valid, Lower(resp.text))
           /\ ~ Contains(T_not_valid, Lower(resp.text))

\* C27: whenever output_agent is entered, plan is not None and queried_data is
\* not None: the verdict "valid" is only set where the validator's
\* precondition held in the same pass.
C27_OutputHasPlanAndResult ==
    pc = "output_agent" =>
        /\ plan # None
        /\ queried_data # None
        /\ validation_result = "valid"

C27_Witness ==
    /\ pc = "output_agent"
    /\ retries >= 1
    /\ plan # None
    /\ queried_data # None
    /\ Count(logs, "Validator Agent Error") >= 1

\* C28: if a run starts with metadata None or empty, or with user_query
\* empty, then planner_node never writes plan (it stays {}), every pass ends
\* with queried_data None and the verdict "not valid", the run never reaches
\* output_agent, every pass appends to logs, and the run goes round
\* planner_agent, sql_agent and validator_agent again and again: it reaches
\* the conditional edge in every pass up to the bound of the exploration.
C28_MissingInputsCycle ==
    (metadata = None \/ metadata = List(<< >>) \/ user_query = "") =>
        /\ [](/\ plan = DefaultPlan
              /\ pc \in { "planner_agent", "sql_agent", "validator_agent",
                          "check_validation" }
              /\ Len(logs) >= 3 * retries
              /\ (pc = "check_validation") =>
                    /\ queried_data = None
                    /\ validation_result = "not valid"
                    /\ Len(logs) >= 3 * (retries + 1))
        /\ \A n \in 0 .. MaxRetries : <>(retries = n /\ pc = "check_validation")

C28_Witness ==
    /\ metadata = List(<< >>)
    /\ user_query # ""
    /\ df = Table(SourceRows)
    /\ db = Table(SourceRows)
    /\ plan = DefaultPlan
    /\ pc = "check_validation"
    /\ retries = MaxRetries
    /\ queried_data = None
    /\ validation_result = "not valid"

====
